---- MODULE Spec2Model ----
(***************************************************************************)
(* Model of split_fiches.py: the page classifier, the one-page-per-file    *)
(* loop and the grouped (multi-page) loop of split_pdf with its nested     *)
(* flush_current, the Ledger (records) and the run counters, the export of *)
(* the Ledger by the caller (Spec), and the window AppUI with its worker   *)
(* thread and its callbacks (GuiSpec).  CliSpec, GroupedSpec and           *)
(* SingleSpec are the runs of Spec that run_cli starts, those of the       *)
(* grouped mode and those of the one-page-per-file mode.                   *)
(*                                                                         *)
(* Strings are modelled as sequences of tokens: a file name is the         *)
(* sequence of the pieces the f-string concatenates, a page text is the    *)
(* pair of the first matches of the two regular expressions.               *)
(***************************************************************************)
EXTENDS Integers, Sequences, FiniteSets, TLC

\* Longest document explored.
MaxPages == 3

\* Most calls of write_pages that raise in one run.
MaxWriteFailures == 2

(***************************************************************************)
(* Inputs: page texts and documents                                        *)
(***************************************************************************)

\* re.search found nothing: no period groups / no AVS token.
NoPeriod == <<>>
NoAvs == ""

\* A page text is what the two searches see of it: per, the two groups
\* <<month, year>> of the first match of PERIOD_RE, and avs, the first match
\* of AVS_RE. "13" is a month \d{2} accepts and MONTHS_FR does not know.
EmptyText == [per |-> NoPeriod, avs |-> NoAvs]

\* What the two searches see of a page text: two complete identities, a
\* period with an unknown month next to an AVS token, one token alone, nothing.
PageTexts ==
    { [per |-> <<"01", "2026">>, avs |-> "756.1234.5678.97"],
      [per |-> <<"12", "2025">>, avs |-> "756.1234.5678.97"],
      [per |-> <<"13", "2026">>, avs |-> "756.1234.5678.97"],
      [per |-> <<"01", "2026">>, avs |-> NoAvs],
      [per |-> NoPeriod, avs |-> "756.1234.5678.97"],
      EmptyText }

\* A page of the source document: extract_text() either raises (unreadable)
\* or returns a text.
Pages ==
    [readable : {TRUE}, text : PageTexts] \cup [readable : {FALSE}, text : {EmptyText}]

Docs == UNION {[1..n -> Pages] : n \in 0..MaxPages}

\* Outcome of one call of write_pages: it returns, or it raises before the
\* output file was created (add_page, open), or after (writer.write).
WriteOutcomes == {"ok", "raise_before_open", "raise_after_open"}

\* What a call of progress_cb can do to its caller.
CallbackOutcomes == {"returns", "raises", "blocks"}

(***************************************************************************)
(* Naming rules                                                            *)
(***************************************************************************)

MONTHS_FR ==
    "01" :> "janvier" @@ "02" :> "fevrier" @@ "03" :> "mars" @@ "04" :> "avril" @@
    "05" :> "mai" @@ "06" :> "juin" @@ "07" :> "juillet" @@ "08" :> "aout" @@
    "09" :> "septembre" @@ "10" :> "octobre" @@ "11" :> "novembre" @@ "12" :> "decembre"

\* Python None for an Optional[str]; falsy like the empty string.
None == <<>>

\* Fault: the name is built without looking for the AVS token.
extract_filename_NoAvsRule(page_text) ==
    IF page_text.per = NoPeriod THEN None
    ELSE LET month_num == page_text.per[1]
             year == page_text.per[2]
         IN  IF month_num \notin DOMAIN MONTHS_FR THEN None
             ELSE <<year, "-", MONTHS_FR[month_num], "-", page_text.avs, ".pdf">>

\* f"{year}-{month_name}-{avs}.pdf", or None.
extract_filename_year_month_avs(page_text) ==
    IF page_text.per = NoPeriod THEN None
    ELSE LET month_num == page_text.per[1]
             year == page_text.per[2]
         IN  IF month_num \notin DOMAIN MONTHS_FR THEN None
             ELSE IF page_text.avs = NoAvs THEN None
             ELSE <<year, "-", MONTHS_FR[month_num], "-", page_text.avs, ".pdf">>

is_new_payslip_page(text) == extract_filename_year_month_avs(text) # None

\* f"{n:03d}"
Pad3(n) ==
    IF n < 10 THEN "00" \o ToString(n)
    ELSE IF n < 100 THEN "0" \o ToString(n)
    ELSE ToString(n)

\* filename[:-4]: the name without its last four characters, ".pdf".
StripPdf(filename) == SubSeq(filename, 1, Len(filename) - 1)

(***************************************************************************)
(* Paths, Ledger entries                                                   *)
(***************************************************************************)

OkDir == "ok_dir"
ErrDir == "err_dir"

\* dir / name
PathOf(dir, name) == [dir |-> dir, name |-> name]

Dash == <<"-">>
NoPath == [dir |-> "-", name |-> Dash]

\* "".join(tokens)
RECURSIVE Join(_)
Join(toks) == IF toks = <<>> THEN "" ELSE Head(toks) \o Join(Tail(toks))

\* Position of the n-th "-" token of toks at or after position from, 0 if none.
RECURSIVE FindSep(_, _)
FindSep(toks, from) ==
    IF from > Len(toks) THEN 0
    ELSE IF toks[from] = "-" THEN from
    ELSE FindSep(toks, from + 1)

\* filename.replace(".pdf", "").split("-", 2) -> (year, month, avs),
\* ("-", "-", "-") when the split has fewer than three parts.
parse_year_month_avs_from_filename(filename) ==
    LET base == SelectSeq(filename, LAMBDA t : t # ".pdf")
        s1 == FindSep(base, 1)
        s2 == IF s1 = 0 THEN 0 ELSE FindSep(base, s1 + 1)
    IN  IF s2 = 0 THEN <<"-", "-", "-">>
        ELSE << Join(SubSeq(base, 1, s1 - 1)),
                Join(SubSeq(base, s1 + 1, s2 - 1)),
                Join(SubSeq(base, s2 + 1, Len(base))) >>

\* The dataclass Record.
Record(status, year, month, avs, pages, output_file, output_path, note) ==
    [status |-> status, year |-> year, month |-> month, avs |-> avs, pages |-> pages,
     output_file |-> output_file, output_path |-> output_path, note |-> note]

\* The header row export_csv writes first.
CsvHeader ==
    <<"status", "year", "month", "avs", "pages", "output_file", "output_path", "note">>

\* The row export_csv writes for one Record.
CsvRow(r) ==
    <<r.status, r.year, r.month, r.avs, r.pages, r.output_file, r.output_path, r.note>>

\* Fault: the rows are written last entry first.
export_csv_Reversed(recs) ==
    <<CsvHeader>> \o [k \in 1..Len(recs) |-> CsvRow(recs[Len(recs) + 1 - k])]

\* The rows export_csv(records, csv_path) writes: the header, then one row for
\* each element of the list in the order of the for loop.
export_csv(recs) == <<CsvHeader>> \o [k \in 1..Len(recs) |-> CsvRow(recs[k])]

\* No file at csv_path.
NoCsv == <<>>

\* f"{start_page}-{end_page}" if start_page != end_page else f"{start_page}":
\* the numbers the string holds.
PagesStr(start_page, end_page) ==
    IF start_page # end_page THEN <<start_page, end_page>> ELSE <<start_page>>

\* Exceptions: a type name and a message.
ExtractError(i) == [type |-> "ExtractError", msg |-> <<"page ", ToString(i)>>]
WriteError(out_path) == [type |-> "WriteError", msg |-> <<out_path.dir, "/">> \o out_path.name]

\* f"{type(e).__name__}: {e}"
ErrNote(e) == <<e.type, ": ">> \o e.msg

NoNote == <<>>
NoteUndetected == <<"periode/AVS non detectes">>
NoteOrphan == <<"page isolee avant toute fiche">>

(***************************************************************************)
(* State                                                                   *)
(***************************************************************************)

VARIABLES
    doc,                 \* reader.pages: the source document
    group_multipage,     \* the mode argument of split_pdf
    observer,            \* progress_cb: "none", or how the callable behaves
    pc,                  \* where the run is: "start", "open_raised", "scan", "returned",
                         \* "raised", "blocked", "exported", "export_raised"
    i,                   \* the loop variable of the page loop
    records,             \* the Ledger
    ok_files,
    fallback_pages,
    errors,
    orphan_pages,
    current_pages,       \* grouped mode: page indices of the open record
    current_filename,    \* grouped mode: its identity-derived name, or None
    current_start_page,  \* grouped mode: its 1-indexed first page, or NoStart
    files,               \* paths that exist in ok_dir and err_dir
    writes,              \* every call of write_pages so far, in order
    progress,            \* every call of progress_cb so far, in order
    result,              \* <<>> until split_pdf returns, then <<the returned dict>>
    csv,                 \* the rows of the file at csv_path, NoCsv while there is none
    run_btn,             \* AppUI: state of the run button, "normal" or "disabled"
    other_btns,          \* AppUI: state of the five buttons run() and _finish() set together
    status_var,          \* AppUI: the status line
    bar,                 \* AppUI: self.progress["value"]
    threads,             \* AppUI: the worker threads started by run(), in order
    ui_queue             \* AppUI: callbacks registered with master.after(0, ...), in order

scan_vars ==
    <<records, ok_files, fallback_pages, errors, orphan_pages, current_pages,
      current_filename, current_start_page, files, writes>>

input_vars == <<doc, group_multipage, observer>>

\* The variables of one run of split_pdf and its export.
core_vars == <<input_vars, pc, i, scan_vars, progress, result, csv>>

\* The variables of the window.
gui_vars == <<run_btn, other_btns, status_var, bar, threads, ui_queue>>

vars == <<core_vars, gui_vars>>

total_pages == Len(doc)

\* Python None for Optional[int]; falsy like 0.
NoStart == 0

\* The local variables of split_pdf that the loop bodies and flush_current
\* read and assign, as one value. uncaught tells whether an exception left
\* the statement that produced the value; every handler of the source
\* catches Exception around its writes.
St ==
    [records |-> records, ok_files |-> ok_files, fallback_pages |-> fallback_pages,
     errors |-> errors, orphan_pages |-> orphan_pages, current_pages |-> current_pages,
     current_filename |-> current_filename, current_start_page |-> current_start_page,
     files |-> files, writes |-> writes, uncaught |-> FALSE]

\* State of split_pdf when the page loop is entered.
St0 ==
    [records |-> <<>>, ok_files |-> 0, fallback_pages |-> 0, errors |-> 0,
     orphan_pages |-> 0, current_pages |-> <<>>, current_filename |-> None,
     current_start_page |-> NoStart, files |-> {}, writes |-> <<>>, uncaught |-> FALSE]

(***************************************************************************)
(* write_pages and the handlers of split_pdf, as functions of the state    *)
(***************************************************************************)

\* write_pages(reader, page_indices, out_path) with the given outcome.
write_pages(st, page_indices, out_path, outcome) ==
    [st EXCEPT
        !.writes = Append(@, [path |-> out_path, pages |-> page_indices, outcome |-> outcome]),
        !.files = IF outcome \in {"ok", "raise_after_open"} THEN @ \cup {out_path} ELSE @]

\* Fault: flush_current leaves the name of the flushed record in place.
ResetCurrent_KeepsName(st) ==
    [st EXCEPT !.current_pages = <<>>, !.current_start_page = NoStart]

\* The three assignments that end flush_current.
ResetCurrent(st) ==
    [st EXCEPT !.current_pages = <<>>, !.current_filename = None,
               !.current_start_page = NoStart]

\* Fault: the ERROR entry names the page by its index.
PageError_ZeroBased(st, idx, e, w) ==
    LET page_no == idx + 1
        out_err == PathOf(ErrDir, <<"error_page_", Pad3(page_no), ".pdf">>)
        s1 == [st EXCEPT !.errors = @ + 1]
        s2 == write_pages(s1, <<idx>>, out_err, w)
        saved == w = "ok"
    IN  [s2 EXCEPT !.records = Append(@,
            Record("ERROR", "-", "-", "-", <<idx>>,
                   IF saved THEN out_err.name ELSE Dash,
                   IF saved THEN out_err ELSE NoPath,
                   ErrNote(e)))]

\* Fault: the handler of a page error also abandons the open record.
PageError_ClosesRecord(st, idx, e, w) ==
    LET page_no == idx + 1
        out_err == PathOf(ErrDir, <<"error_page_", Pad3(page_no), ".pdf">>)
        s1 == [st EXCEPT !.errors = @ + 1]
        s2 == write_pages(s1, <<idx>>, out_err, w)
        saved == w = "ok"
    IN  ResetCurrent([s2 EXCEPT !.records = Append(@,
            Record("ERROR", "-", "-", "-", <<page_no>>,
                   IF saved THEN out_err.name ELSE Dash,
                   IF saved THEN out_err ELSE NoPath,
                   ErrNote(e)))])

\* Fault: the write to the error location is not guarded by a try of its
\* own, so its exception leaves the handler.
PageError_Unguarded(st, idx, e, w) ==
    LET page_no == idx + 1
        out_err == PathOf(ErrDir, <<"error_page_", Pad3(page_no), ".pdf">>)
        s1 == [st EXCEPT !.errors = @ + 1]
        s2 == write_pages(s1, <<idx>>, out_err, w)
    IN  IF w = "ok"
        THEN [s2 EXCEPT !.records = Append(@,
                 Record("ERROR", "-", "-", "-", <<page_no>>, out_err.name, out_err,
                        ErrNote(e)))]
        ELSE [s2 EXCEPT !.uncaught = TRUE]

\* The except blocks of both page loops: count the error, try to save the
\* page as error_page_NNN.pdf, append the ERROR entry.
PageError(st, idx, e, w) ==
    LET page_no == idx + 1
        out_err == PathOf(ErrDir, <<"error_page_", Pad3(page_no), ".pdf">>)
        s1 == [st EXCEPT !.errors = @ + 1]
        s2 == write_pages(s1, <<idx>>, out_err, w)
        saved == w = "ok"
    IN  [s2 EXCEPT !.records = Append(@,
            Record("ERROR", "-", "-", "-", <<page_no>>,
                   IF saved THEN out_err.name ELSE Dash,
                   IF saved THEN out_err ELSE NoPath,
                   ErrNote(e)))]

\* The OK entry of a written artifact.
OkRecord(pages_str, out_path) ==
    LET ymd == parse_year_month_avs_from_filename(out_path.name)
    IN  Record("OK", ymd[1], ymd[2], ymd[3], pages_str, out_path.name, out_path, NoNote)

\* Mode 1, the body of the loop for page idx (without the progress call).
SingleBody(st, idx, page, w1, w2) ==
    LET page_no == idx + 1
    IN  IF ~page.readable THEN PageError(st, idx, ExtractError(idx), w1)
        ELSE LET filename == extract_filename_year_month_avs(page.text)
             IN  IF filename # None
                 THEN LET out_path ==
                              IF PathOf(OkDir, filename) \in st.files
                              THEN PathOf(OkDir, StripPdf(filename) \o <<"_page", Pad3(page_no), ".pdf">>)
                              ELSE PathOf(OkDir, filename)
                          s1 == write_pages(st, <<idx>>, out_path, w1)
                      IN  IF w1 = "ok"
                          THEN [s1 EXCEPT !.ok_files = @ + 1,
                                          !.records = Append(@, OkRecord(<<page_no>>, out_path))]
                          ELSE PageError(s1, idx, WriteError(out_path), w2)
                 ELSE LET out_path == PathOf(ErrDir, <<"fiche_page_", Pad3(page_no), ".pdf">>)
                          s1 == write_pages(st, <<idx>>, out_path, w1)
                      IN  IF w1 = "ok"
                          THEN [s1 EXCEPT !.fallback_pages = @ + 1,
                                          !.records = Append(@,
                                              Record("FALLBACK", "-", "-", "-", <<page_no>>,
                                                     out_path.name, out_path, NoteUndetected))]
                          ELSE PageError(s1, idx, WriteError(out_path), w2)

\* start_page of flush_current.
FlushStart(st) ==
    IF st.current_start_page # NoStart THEN st.current_start_page
    ELSE st.current_pages[1] + 1

\* end_page of flush_current.
FlushEnd(st) == st.current_pages[Len(st.current_pages)] + 1

\* Fault: the name is used without looking for an existing file.
ResolveName_NoSuffix(st, start_page) == PathOf(OkDir, st.current_filename)

\* Fault: the suffix is the number of pages of the record.
ResolveName_SuffixesLength(st, start_page) ==
    IF PathOf(OkDir, st.current_filename) \in st.files
    THEN PathOf(OkDir,
                StripPdf(st.current_filename) \o <<"_p", Pad3(Len(st.current_pages)), ".pdf">>)
    ELSE PathOf(OkDir, st.current_filename)

\* Fault: the suffix is the record's last page.
ResolveName_SuffixesEnd(st, start_page) ==
    IF PathOf(OkDir, st.current_filename) \in st.files
    THEN PathOf(OkDir, StripPdf(st.current_filename) \o <<"_p", Pad3(FlushEnd(st)), ".pdf">>)
    ELSE PathOf(OkDir, st.current_filename)

\* out_path of flush_current: the identity-derived name, suffixed with the
\* start page when a file of that name exists.
ResolveName(st, start_page) ==
    IF PathOf(OkDir, st.current_filename) \in st.files
    THEN PathOf(OkDir, StripPdf(st.current_filename) \o <<"_p", Pad3(start_page), ".pdf">>)
    ELSE PathOf(OkDir, st.current_filename)

\* Fault: the note reports the exception of the second write when that
\* write raises too.
SlipError_NotesLastError(st, e, start_page, pages_str, w2) ==
    LET out_err == PathOf(ErrDir, <<"error_slip_p", Pad3(start_page), ".pdf">>)
        s1 == [st EXCEPT !.errors = @ + 1]
        s2 == write_pages(s1, st.current_pages, out_err, w2)
        saved == w2 = "ok"
    IN  [s2 EXCEPT !.records = Append(@,
            Record("ERROR", "-", "-", "-", pages_str,
                   IF saved THEN out_err.name ELSE Dash,
                   IF saved THEN out_err ELSE NoPath,
                   IF saved THEN ErrNote(e) ELSE ErrNote(WriteError(out_err))))]

\* The except block of the identity branch of flush_current: e is the
\* exception of the primary write, w2 the outcome of the write to out_err.
SlipError(st, e, start_page, pages_str, w2) ==
    LET out_err == PathOf(ErrDir, <<"error_slip_p", Pad3(start_page), ".pdf">>)
        s1 == [st EXCEPT !.errors = @ + 1]
        s2 == write_pages(s1, st.current_pages, out_err, w2)
        saved == w2 = "ok"
    IN  [s2 EXCEPT !.records = Append(@,
            Record("ERROR", "-", "-", "-", pages_str,
                   IF saved THEN out_err.name ELSE Dash,
                   IF saved THEN out_err ELSE NoPath,
                   ErrNote(e)))]

\* The branch of flush_current for a record that holds a name.
FlushIdentified(st, start_page, pages_str, w1, w2) ==
    LET out_path == ResolveName(st, start_page)
        s1 == write_pages(st, st.current_pages, out_path, w1)
    IN  IF w1 = "ok"
        THEN [s1 EXCEPT !.ok_files = @ + 1,
                        !.records = Append(@, OkRecord(pages_str, out_path))]
        ELSE SlipError(s1, WriteError(out_path), start_page, pages_str, w2)

\* The branch of flush_current for a page list without a name.
FlushUnknown(st, start_page, pages_str, w1) ==
    LET out_err == PathOf(ErrDir, <<"unknown_slip_p", Pad3(start_page), ".pdf">>)
        s1 == write_pages(st, st.current_pages, out_err, w1)
    IN  IF w1 = "ok"
        THEN [s1 EXCEPT !.fallback_pages = @ + Len(st.current_pages),
                        !.records = Append(@,
                            Record("FALLBACK", "-", "-", "-", pages_str,
                                   out_err.name, out_err, NoteUndetected))]
        ELSE [s1 EXCEPT !.errors = @ + 1,
                        !.records = Append(@,
                            Record("ERROR", "-", "-", "-", pages_str, Dash, NoPath,
                                   ErrNote(WriteError(out_err))))]

\* flush_current(): finalize the open record, if any.
flush_current(st, w1, w2) ==
    IF st.current_pages = <<>> THEN st
    ELSE LET start_page == FlushStart(st)
             pages_str == PagesStr(start_page, FlushEnd(st))
         IN  IF st.current_filename # None
             THEN ResetCurrent(FlushIdentified(st, start_page, pages_str, w1, w2))
             ELSE ResetCurrent(FlushUnknown(st, start_page, pages_str, w1))

\* Fault: the new record replaces the open one, which is never finalized.
OpenRecord_NoFlush(st, idx, filename, w1, w2) ==
    [st EXCEPT !.current_pages = <<idx>>,
               !.current_filename = filename,
               !.current_start_page = idx + 1]

\* Fault: when the write of the flushed record raises, the boundary page is
\* dropped and no record is open after it.
OpenRecord_LostOnFailedFlush(st, idx, filename, w1, w2) ==
    LET s1 == IF st.current_pages # <<>> THEN flush_current(st, w1, w2) ELSE st
    IN  IF st.current_pages # <<>> /\ w1 # "ok" THEN s1
        ELSE [s1 EXCEPT !.current_pages = <<idx>>,
                        !.current_filename = filename,
                        !.current_start_page = idx + 1]

\* A boundary page: flush the open record, then open a new one with this page.
OpenRecord(st, idx, filename, w1, w2) ==
    LET s1 == IF st.current_pages # <<>> THEN flush_current(st, w1, w2) ELSE st
    IN  [s1 EXCEPT !.current_pages = <<idx>>,
                   !.current_filename = filename,
                   !.current_start_page = idx + 1]

\* Fault: a continuation page is dropped.
AppendPage_Drops(st, idx) == st

\* A continuation page while a record is open.
AppendPage(st, idx) == [st EXCEPT !.current_pages = Append(@, idx)]

\* Fault: the orphan page is not counted as an orphan.
EmitOrphan_Uncounted(st, idx, w1, w2) ==
    LET page_no == idx + 1
        out_err == PathOf(ErrDir, <<"orphan_page_", Pad3(page_no), ".pdf">>)
        s1 == write_pages(st, <<idx>>, out_err, w1)
    IN  IF w1 = "ok"
        THEN [s1 EXCEPT !.fallback_pages = @ + 1,
                        !.records = Append(@,
                            Record("ORPHAN", "-", "-", "-", <<page_no>>,
                                   out_err.name, out_err, NoteOrphan))]
        ELSE PageError(s1, idx, WriteError(out_err), w2)

\* A continuation page while no record is open.
EmitOrphan(st, idx, w1, w2) ==
    LET page_no == idx + 1
        out_err == PathOf(ErrDir, <<"orphan_page_", Pad3(page_no), ".pdf">>)
        s1 == write_pages(st, <<idx>>, out_err, w1)
    IN  IF w1 = "ok"
        THEN [s1 EXCEPT !.orphan_pages = @ + 1,
                        !.fallback_pages = @ + 1,
                        !.records = Append(@,
                            Record("ORPHAN", "-", "-", "-", <<page_no>>,
                                   out_err.name, out_err, NoteOrphan))]
        ELSE PageError(s1, idx, WriteError(out_err), w2)

\* Fault: a page without a complete identity is appended to current_pages
\* whether or not a record is open.
GroupedBody_AlwaysAppends(st, idx, page, w1, w2) ==
    IF ~page.readable THEN PageError(st, idx, ExtractError(idx), w1)
    ELSE LET filename == extract_filename_year_month_avs(page.text)
         IN  IF filename # None THEN OpenRecord(st, idx, filename, w1, w2)
             ELSE AppendPage(st, idx)

\* Fault: a page whose extraction raises first finalizes the open record.
GroupedBody_ErrorFlushes(st, idx, page, w1, w2) ==
    IF ~page.readable
    THEN PageError(flush_current(st, w1, w2), idx, ExtractError(idx), w1)
    ELSE LET filename == extract_filename_year_month_avs(page.text)
         IN  IF filename # None THEN OpenRecord(st, idx, filename, w1, w2)
             ELSE IF st.current_pages # <<>> THEN AppendPage(st, idx)
             ELSE EmitOrphan(st, idx, w1, w2)

\* Mode 2, the body of the loop for page idx (without the progress call).
GroupedBody(st, idx, page, w1, w2) ==
    IF ~page.readable THEN PageError(st, idx, ExtractError(idx), w1)
    ELSE LET filename == extract_filename_year_month_avs(page.text)
         IN  IF filename # None THEN OpenRecord(st, idx, filename, w1, w2)
             ELSE IF st.current_pages # <<>> THEN AppendPage(st, idx)
             ELSE EmitOrphan(st, idx, w1, w2)

\* The dict split_pdf returns.
ResultOf(st) ==
    [pages |-> total_pages, ok_files |-> st.ok_files, fallback_pages |-> st.fallback_pages,
     errors |-> st.errors, orphans |-> st.orphan_pages, records |-> st.records]

(***************************************************************************)
(* split_pdf as a state machine: one step per iteration of the page loop   *)
(***************************************************************************)

\* progress_cb is None, or a callable.
Observers == {"none", "installed"}

\* The window after AppUI.__init__ and _build.
AppUI_init ==
    /\ run_btn = "normal"
    /\ other_btns = "disabled"
    /\ status_var = "Pret."
    /\ bar = 0
    /\ threads = <<>>
    /\ ui_queue = <<>>

\* The caller (run_cli, AppUI._do_work) has made the directories and the
\* logger and calls split_pdf, whose locals are shown with their initial values.
Init ==
    /\ doc \in Docs
    /\ group_multipage \in BOOLEAN
    /\ observer \in Observers
    /\ pc = "start"
    /\ i = 0
    /\ records = St0.records
    /\ ok_files = St0.ok_files
    /\ fallback_pages = St0.fallback_pages
    /\ errors = St0.errors
    /\ orphan_pages = St0.orphan_pages
    /\ current_pages = St0.current_pages
    /\ current_filename = St0.current_filename
    /\ current_start_page = St0.current_start_page
    /\ files = St0.files
    /\ writes = St0.writes
    /\ progress = <<>>
    /\ result = <<>>
    /\ csv = NoCsv
    /\ AppUI_init

\* Assign the locals of split_pdf from st.
Assign(st) ==
    /\ records' = st.records
    /\ ok_files' = st.ok_files
    /\ fallback_pages' = st.fallback_pages
    /\ errors' = st.errors
    /\ orphan_pages' = st.orphan_pages
    /\ current_pages' = st.current_pages
    /\ current_filename' = st.current_filename
    /\ current_start_page' = st.current_start_page
    /\ files' = st.files
    /\ writes' = st.writes

\* What the callable passed as progress_cb may do when called.
CallbackBehaviours == IF observer = "installed" THEN CallbackOutcomes ELSE {"returns"}

\* Fault: a page whose handling counted an error is not notified.
Notify_SkipsFailedPage(st, page_no, cb) ==
    IF st.uncaught
    THEN /\ progress' = progress
         /\ pc' = "raised"
         /\ i' = i
    ELSE IF observer = "none" \/ st.errors > errors
    THEN /\ progress' = progress
         /\ pc' = "scan"
         /\ i' = i + 1
    ELSE /\ progress' = Append(progress, <<page_no, total_pages>>)
         /\ pc' = CASE cb = "returns" -> "scan"
                    [] cb = "raises" -> "raised"
                    [] OTHER -> "blocked"
         /\ i' = IF cb = "returns" THEN i + 1 ELSE i

\* if progress_cb: progress_cb(page_no, total_pages) -- the last statement
\* of the loop body; the call is made in the scanning thread, outside any try.
\* It is not reached when the statements before it raised.
Notify(st, page_no, cb) ==
    IF st.uncaught
    THEN /\ progress' = progress
         /\ pc' = "raised"
         /\ i' = i
    ELSE IF observer = "none"
    THEN /\ progress' = progress
         /\ pc' = "scan"
         /\ i' = i + 1
    ELSE /\ progress' = Append(progress, <<page_no, total_pages>>)
         /\ pc' = CASE cb = "returns" -> "scan"
                    [] cb = "raises" -> "raised"
                    [] OTHER -> "blocked"
         /\ i' = IF cb = "returns" THEN i + 1 ELSE i

\* Number of calls of write_pages in the log that raised.
FailedWrites(log) == Cardinality({k \in 1..Len(log) : log[k].outcome # "ok"})

\* The runs explored: at most MaxWriteFailures calls of write_pages raise, and
\* a call that raises leaves a file behind only in ok_dir, the one directory
\* split_pdf looks into (out_path.exists()).
Explored(log) ==
    /\ FailedWrites(log) <= MaxWriteFailures
    /\ \A k \in 1..Len(log) :
          log[k].path.dir = ErrDir => log[k].outcome # "raise_after_open"

\* The outcomes of the (at most two) calls of write_pages of one step.
WriteChoices == WriteOutcomes \X WriteOutcomes

\* The states the body of the mode 1 loop can leave for page i + 1.
SinglePageResults ==
    {st \in {SingleBody(St, i, doc[i + 1], w[1], w[2]) : w \in WriteChoices} :
        Explored(st.writes)}

\* The states the body of the mode 2 loop can leave for page i + 1.
GroupedPageResults ==
    {st \in {GroupedBody(St, i, doc[i + 1], w[1], w[2]) : w \in WriteChoices} :
        Explored(st.writes)}

\* The states the terminal flush_current() can leave.
FinalFlushResults ==
    {st \in {flush_current(St, w[1], w[2]) : w \in WriteChoices} : Explored(st.writes)}

\* What PdfReader(str(input_pdf)) and len(reader.pages) can do.
OpenOutcomes == {"opens", "raises"}

\* reader = PdfReader(str(input_pdf)); total_pages = len(reader.pages): the
\* first statements of split_pdf. Their exception leaves split_pdf and its
\* caller.
OpenSource ==
    /\ pc = "start"
    /\ \E o \in OpenOutcomes : pc' = IF o = "opens" THEN "scan" ELSE "open_raised"
    /\ UNCHANGED <<input_vars, i, scan_vars, progress, result, csv, gui_vars>>

\* One iteration of the loop of mode 1.
SinglePage ==
    /\ pc = "scan"
    /\ ~group_multipage
    /\ i < total_pages
    /\ \E st \in SinglePageResults :
          /\ Assign(st)
          /\ \E cb \in CallbackBehaviours : Notify(st, i + 1, cb)
    /\ UNCHANGED <<input_vars, result, csv, gui_vars>>

\* Mode 1: the loop is over, return the summary.
SingleReturn ==
    /\ pc = "scan"
    /\ ~group_multipage
    /\ i = total_pages
    /\ result' = <<ResultOf(St)>>
    /\ pc' = "returned"
    /\ UNCHANGED <<input_vars, i, scan_vars, progress, csv, gui_vars>>

\* One iteration of the loop of mode 2.
GroupedPage ==
    /\ pc = "scan"
    /\ group_multipage
    /\ i < total_pages
    /\ \E st \in GroupedPageResults :
          /\ Assign(st)
          /\ \E cb \in CallbackBehaviours : Notify(st, i + 1, cb)
    /\ UNCHANGED <<input_vars, result, csv, gui_vars>>

\* Fault: the summary is returned without the terminal flush_current().
GroupedReturn_NoFlush ==
    /\ pc = "scan"
    /\ group_multipage
    /\ i = total_pages
    /\ result' = <<ResultOf(St)>>
    /\ pc' = "returned"
    /\ UNCHANGED <<input_vars, i, scan_vars, progress, csv, gui_vars>>

\* Mode 2: the loop is over: terminal flush_current(), return the summary.
GroupedReturn ==
    /\ pc = "scan"
    /\ group_multipage
    /\ i = total_pages
    /\ \E st \in FinalFlushResults :
          /\ Assign(st)
          /\ result' = IF st.uncaught THEN result ELSE <<ResultOf(st)>>
          /\ pc' = IF st.uncaught THEN "raised" ELSE "returned"
    /\ UNCHANGED <<input_vars, i, progress, csv, gui_vars>>

\* What export_csv can do: write the file, or raise before the file exists
\* (mkdir, open).
ExportOutcomes == {"written", "raises"}

\* Fault: the caller exports in a finally clause, also when split_pdf raised
\* on opening the source.
ExportCsv_Finally ==
    /\ pc \in {"returned", "open_raised"}
    /\ csv' = export_csv(records)
    /\ pc' = IF pc = "returned" THEN "exported" ELSE pc
    /\ UNCHANGED <<input_vars, i, scan_vars, progress, result, gui_vars>>

\* export_csv(result["records"], csv_path): the statement of the caller that
\* follows the return of split_pdf.
ExportCsv ==
    /\ pc = "returned"
    /\ \E o \in ExportOutcomes :
          /\ csv' = IF o = "written" THEN export_csv(result[1].records) ELSE csv
          /\ pc' = IF o = "written" THEN "exported" ELSE "export_raised"
    /\ UNCHANGED <<input_vars, i, scan_vars, progress, result, gui_vars>>

Next ==
    \/ OpenSource
    \/ SinglePage \/ SingleReturn
    \/ GroupedPage \/ GroupedReturn
    \/ ExportCsv

Spec == Init /\ [][Next]_vars

\* The runs run_cli starts: split_pdf is called without a progress_cb.
CliInit == Init /\ observer = "none"

CliSpec == CliInit /\ [][Next]_vars

\* The runs with group_multipage=True: the grouped loop and the terminal flush.
GroupedInit == Init /\ group_multipage

GroupedNext == OpenSource \/ GroupedPage \/ GroupedReturn \/ ExportCsv

GroupedSpec == GroupedInit /\ [][GroupedNext]_vars

\* The runs with group_multipage=False: the one-page-per-file loop.
SingleInit == Init /\ ~group_multipage

SingleNext == OpenSource \/ SinglePage \/ SingleReturn \/ ExportCsv

SingleSpec == SingleInit /\ [][SingleNext]_vars

(***************************************************************************)
(* The window: AppUI.run, the worker thread _do_work, the callbacks        *)
(***************************************************************************)

\* Most runs launched from one window.
MaxRuns == 2

\* Longest document a worker scans.
MaxGuiPages == 2

\* What the entry holds when the run button is pressed: nothing, the path of
\* no file, the path of a file.
PdfChoices == {"empty", "missing", "exists"}

\* What self.master.after(0, callback) can do when a worker thread calls it:
\* register the callback, or raise.
AfterOutcomes == {"registered", "raises"}

\* A worker thread: where it is in _do_work, and the progress of its split_pdf.
\*   "working"        in the try block: make_dirs .. split_pdf .. export_csv
\*   "raised"         an exception is on its way to the except clause
\*   "posted_finish"  _finish is registered, the try block is over
\*   "in_except"      _fail is registered, the except clause is not yet left:
\*                    its variable e is still bound
\*   "exited"         the thread is over (e is unbound)
Thread(at, done, total) == [at |-> at, done |-> done, total |-> total]

\* A registered callback.
Callback(kind, t, done, total) == [kind |-> kind, thread |-> t, done |-> done, total |-> total]

\* A window in which no run of the model's first part takes place.
CoreIdle ==
    /\ doc = <<>>
    /\ group_multipage = TRUE
    /\ observer = "installed"
    /\ pc = "start"
    /\ i = 0
    /\ records = St0.records
    /\ ok_files = St0.ok_files
    /\ fallback_pages = St0.fallback_pages
    /\ errors = St0.errors
    /\ orphan_pages = St0.orphan_pages
    /\ current_pages = St0.current_pages
    /\ current_filename = St0.current_filename
    /\ current_start_page = St0.current_start_page
    /\ files = St0.files
    /\ writes = St0.writes
    /\ progress = <<>>
    /\ result = <<>>
    /\ csv = NoCsv

GuiInit == CoreIdle /\ AppUI_init

\* Fault: run() leaves the run button enabled.
AppUI_run_KeepsButton ==
    /\ run_btn = "normal"
    /\ Len(threads) < MaxRuns
    /\ \E pdf \in PdfChoices, total \in 0..MaxGuiPages :
          IF pdf # "exists" THEN UNCHANGED gui_vars
          ELSE /\ other_btns' = "disabled"
               /\ status_var' = "Traitement en cours"
               /\ bar' = 0
               /\ threads' = Append(threads, Thread("working", 0, total))
               /\ UNCHANGED <<run_btn, ui_queue>>
    /\ UNCHANGED core_vars

\* AppUI.run, the command of the run button; a disabled button does not call
\* it. It returns after a message box when no file is chosen, else disables
\* the buttons and starts a worker thread.
AppUI_run ==
    /\ run_btn = "normal"
    /\ Len(threads) < MaxRuns
    /\ \E pdf \in PdfChoices, total \in 0..MaxGuiPages :
          IF pdf # "exists" THEN UNCHANGED gui_vars
          ELSE /\ run_btn' = "disabled"
               /\ other_btns' = "disabled"
               /\ status_var' = "Traitement en cours"
               /\ bar' = 0
               /\ threads' = Append(threads, Thread("working", 0, total))
               /\ UNCHANGED ui_queue
    /\ UNCHANGED core_vars

\* progress_cb of _do_work, called by split_pdf in the worker thread after a
\* page: it registers _update_progress(done, total); if after() raises, the
\* exception leaves split_pdf.
Worker_progress_cb ==
    /\ \E t \in 1..Len(threads), o \in AfterOutcomes :
          /\ threads[t].at = "working"
          /\ threads[t].done < threads[t].total
          /\ IF o = "registered"
             THEN /\ ui_queue' = Append(ui_queue,
                         Callback("update_progress", t, threads[t].done + 1, threads[t].total))
                  /\ threads' = [threads EXCEPT ![t].done = @ + 1]
             ELSE /\ threads' = [threads EXCEPT ![t].at = "raised"]
                  /\ UNCHANGED ui_queue
    /\ UNCHANGED <<run_btn, other_btns, status_var, bar, core_vars>>

\* A statement of the try block other than the progress call raises:
\* make_dirs, setup_logger, the opening of the source, export_csv.
Worker_raises ==
    /\ \E t \in 1..Len(threads) :
          /\ threads[t].at = "working"
          /\ threads' = [threads EXCEPT ![t].at = "raised"]
    /\ UNCHANGED <<run_btn, other_btns, status_var, bar, ui_queue, core_vars>>

\* split_pdf has returned and export_csv has written the file: the last
\* statement of the try block registers _finish(result).
Worker_posts_finish ==
    /\ \E t \in 1..Len(threads), o \in AfterOutcomes :
          /\ threads[t].at = "working"
          /\ threads[t].done = threads[t].total
          /\ IF o = "registered"
             THEN /\ ui_queue' = Append(ui_queue,
                         Callback("finish", t, threads[t].done, threads[t].total))
                  /\ threads' = [threads EXCEPT ![t].at = "posted_finish"]
             ELSE /\ threads' = [threads EXCEPT ![t].at = "raised"]
                  /\ UNCHANGED ui_queue
    /\ UNCHANGED <<run_btn, other_btns, status_var, bar, core_vars>>

\* except Exception as e: register lambda: self._fail(e). If after() raises
\* here the thread ends on that exception.
Worker_posts_fail ==
    /\ \E t \in 1..Len(threads), o \in AfterOutcomes :
          /\ threads[t].at = "raised"
          /\ IF o = "registered"
             THEN /\ ui_queue' = Append(ui_queue,
                         Callback("fail", t, threads[t].done, threads[t].total))
                  /\ threads' = [threads EXCEPT ![t].at = "in_except"]
             ELSE /\ threads' = [threads EXCEPT ![t].at = "exited"]
                  /\ UNCHANGED ui_queue
    /\ UNCHANGED <<run_btn, other_btns, status_var, bar, core_vars>>

\* _do_work returns: the thread is over. Leaving the except clause unbinds e.
Worker_exits ==
    /\ \E t \in 1..Len(threads) :
          /\ threads[t].at \in {"posted_finish", "in_except"}
          /\ threads' = [threads EXCEPT ![t].at = "exited"]
    /\ UNCHANGED <<run_btn, other_btns, status_var, bar, ui_queue, core_vars>>

\* The main loop runs the oldest registered callback, _update_progress.
AppUI_update_progress ==
    /\ ui_queue # <<>>
    /\ Head(ui_queue).kind = "update_progress"
    /\ bar' = Head(ui_queue).done
    /\ status_var' = "Traitement"
    /\ ui_queue' = Tail(ui_queue)
    /\ UNCHANGED <<run_btn, other_btns, threads, core_vars>>

\* The main loop runs the oldest registered callback, _finish.
AppUI_finish ==
    /\ ui_queue # <<>>
    /\ Head(ui_queue).kind = "finish"
    /\ run_btn' = "normal"
    /\ other_btns' = "normal"
    /\ status_var' = "Termine"
    /\ ui_queue' = Tail(ui_queue)
    /\ UNCHANGED <<bar, threads, core_vars>>

\* The main loop runs the oldest registered callback, lambda: self._fail(e).
\* The lambda reads e of _do_work when it runs: while the worker has not left
\* its except clause e is bound and _fail runs; afterwards the read raises
\* NameError and _fail is not called.
AppUI_fail ==
    /\ ui_queue # <<>>
    /\ Head(ui_queue).kind = "fail"
    /\ IF threads[Head(ui_queue).thread].at = "in_except"
       THEN /\ run_btn' = "normal"
            /\ status_var' = "Erreur."
       ELSE UNCHANGED <<run_btn, status_var>>
    /\ ui_queue' = Tail(ui_queue)
    /\ UNCHANGED <<other_btns, bar, threads, core_vars>>

GuiNext ==
    \/ AppUI_run
    \/ Worker_progress_cb \/ Worker_raises \/ Worker_posts_finish
    \/ Worker_posts_fail \/ Worker_exits
    \/ AppUI_update_progress \/ AppUI_finish \/ AppUI_fail

GuiSpec == GuiInit /\ [][GuiNext]_vars

(***************************************************************************)
(* Reading the Ledger                                                      *)
(***************************************************************************)

Returned == pc = "returned"

\* The pages field of an entry read as the 1-indexed interval start..end.
RangeOf(r) == r.pages[1] .. r.pages[Len(r.pages)]

\* Number of Ledger entries with the given outcome tag.
Tally(ledger, status) == Cardinality({k \in 1..Len(ledger) : ledger[k].status = status})

\* The pages extract_text() raises on.
Unreadable(d) == {p \in 1..Len(d) : ~d[p].readable}

\* Page p (1-indexed) of d is a boundary page.
Boundary(d, p) == d[p].readable /\ is_new_payslip_page(d[p].text)

\* A grouped scan of document d in which every write succeeds, from page
\* index idx and state st to the terminal flush.
RECURSIVE ScanGrouped(_, _, _)
ScanGrouped(d, idx, st) ==
    IF idx = Len(d) THEN flush_current(st, "ok", "ok")
    ELSE ScanGrouped(d, idx + 1, GroupedBody(st, idx, d[idx + 1], "ok", "ok"))

(***************************************************************************)
(* C1  Coverage                                                            *)
(***************************************************************************)

\* C1: when a grouped scan has returned, the ranges recorded in the Ledger
\* entries contain every page 1..total_pages exactly once, and no other page.
C1_Coverage ==
    (Returned /\ group_multipage) =>
        /\ \A p \in 1..total_pages :
              Cardinality({k \in 1..Len(records) : p \in RangeOf(records[k])}) = 1
        /\ \A k \in 1..Len(records) : RangeOf(records[k]) \subseteq 1..total_pages

(***************************************************************************)
(* C2  Isolation of one unreadable page                                    *)
(***************************************************************************)

\* d without its page k (1-indexed).
RemovePage(d, k) == [j \in 1..(Len(d) - 1) |-> IF j < k THEN d[j] ELSE d[j + 1]]

\* Page index (0-based) in d of page index j of RemovePage(d, k).
OrigIndex(j, k) == IF j < k - 1 THEN j ELSE j + 1

\* The artifacts of a scan other than the copy of an unreadable page.
KeptWrites(log) == SelectSeq(log, LAMBDA w : w.path.name[1] # "error_page_")

\* The entries of a Ledger other than ERROR.
KeptEntries(ledger) == SelectSeq(ledger, LAMBDA r : r.status # "ERROR")

\* C2: a grouped scan in which exactly one page is unreadable and every write
\* succeeds returns a Ledger with exactly one ERROR entry, for that page alone,
\* and its other entries have the statuses, and its artifacts the pages, of
\* the scan of the document without that page.
C2_Isolation ==
    (Returned /\ group_multipage /\ Cardinality(Unreadable(doc)) = 1
        /\ FailedWrites(writes) = 0) =>
        LET k == CHOOSE p \in Unreadable(doc) : TRUE
            ref == ScanGrouped(RemovePage(doc, k), 0, St0)
            kept == KeptWrites(writes)
            refw == KeptWrites(ref.writes)
        IN  /\ Tally(records, "ERROR") = 1
            /\ \E n \in 1..Len(records) :
                  records[n].status = "ERROR" /\ records[n].pages = <<k>>
            /\ [n \in 1..Len(KeptEntries(records)) |-> KeptEntries(records)[n].status]
                  = [n \in 1..Len(ref.records) |-> ref.records[n].status]
            /\ Len(kept) = Len(refw)
            /\ Len(kept) = Len(ref.records)
            /\ \A n \in 1..Len(kept) :
                  /\ kept[n].path.dir = refw[n].path.dir
                  /\ kept[n].pages =
                        [m \in 1..Len(refw[n].pages) |-> OrigIndex(refw[n].pages[m], k)]

\* C2 witness: the unreadable page fell inside an open record that a later
\* page continued.
C2_Witness ==
    /\ Returned /\ group_multipage /\ FailedWrites(writes) = 0
    /\ Unreadable(doc) = {2}
    /\ \E n \in 1..Len(writes) : writes[n].pages = <<0, 2>>

(***************************************************************************)
(* C3  Uniqueness of output names                                          *)
(***************************************************************************)

\* C3: no two OK entries of the Ledger have the same output file name.
C3_UniqueNames ==
    \A m, n \in 1..Len(records) :
        (m # n /\ records[m].status = "OK" /\ records[n].status = "OK")
            => records[m].output_file # records[n].output_file

\* C3 witness: three OK entries for three pages with the same identity.
C3_Witness ==
    /\ Len(doc) = 3
    /\ \A p \in 1..3 : Boundary(doc, p) /\ doc[p].text = doc[1].text
    /\ Tally(records, "OK") = 3

(***************************************************************************)
(* C4  Counters and Ledger tallies                                         *)
(***************************************************************************)

\* C4: the returned counters are the tallies of the Ledger by outcome tag.
C4_CountersAreTallies ==
    Returned =>
        /\ result[1].ok_files = Tally(result[1].records, "OK")
        /\ result[1].fallback_pages = Tally(result[1].records, "FALLBACK")
        /\ result[1].orphans = Tally(result[1].records, "ORPHAN")
        /\ result[1].errors = Tally(result[1].records, "ERROR")

\* C4 amended: as C4, except that fallback_pages counts the FALLBACK entries
\* and the ORPHAN entries together.
C4_CountersReconcile ==
    Returned =>
        /\ result[1].records = records
        /\ result[1].ok_files = Tally(records, "OK")
        /\ result[1].fallback_pages = Tally(records, "FALLBACK") + Tally(records, "ORPHAN")
        /\ result[1].orphans = Tally(records, "ORPHAN")
        /\ result[1].errors = Tally(records, "ERROR")

\* C4 witness: a returned grouped run whose Ledger holds an ORPHAN, an OK and
\* an ERROR entry.
C4_Witness ==
    /\ Returned /\ group_multipage
    /\ Tally(records, "ORPHAN") >= 1
    /\ Tally(records, "OK") >= 1
    /\ Tally(records, "ERROR") >= 1

(***************************************************************************)
(* C5  A failed primary write                                              *)
(***************************************************************************)

\* The grouped step that follows the current state when every write succeeds.
StepAllWritten ==
    IF i < total_pages THEN GroupedBody(St, i, doc[i + 1], "ok", "ok")
    ELSE flush_current(St, "ok", "ok")

\* This step's first call of write_pages was the primary write of a record,
\* and it raised.
PrimaryWriteFailed ==
    /\ group_multipage
    /\ Len(writes') > Len(writes)
    /\ writes'[Len(writes) + 1].path.dir = OkDir
    /\ writes'[Len(writes) + 1].outcome # "ok"

C5_Step ==
    PrimaryWriteFailed =>
        LET primary == writes'[Len(writes) + 1]
            r == records'[Len(records')]
        IN  /\ Len(records') = Len(records) + 1
            /\ SubSeq(records', 1, Len(records)) = records
            /\ r.status = "ERROR"
            /\ r.pages = PagesStr(current_start_page, current_pages[Len(current_pages)] + 1)
            /\ r.note = ErrNote(WriteError(primary.path))
            /\ ok_files' = ok_files
            /\ current_pages' = StepAllWritten.current_pages
            /\ current_filename' = StepAllWritten.current_filename
            /\ current_start_page' = StepAllWritten.current_start_page

\* The ranges of the Ledger of a returned grouped scan are those of the scan
\* of the same document in which every write succeeds.
C5_Segments ==
    (Returned /\ group_multipage) =>
        LET ref == ScanGrouped(doc, 0, St0).records
        IN  [n \in 1..Len(records) |-> records[n].pages] = [n \in 1..Len(ref) |-> ref[n].pages]

\* C5: a step in which the primary write of a record raises appends exactly
\* one entry, an ERROR entry for the record's range whose note is the error of
\* the primary write, appends no OK entry, and leaves the open-record state as
\* the same step with a successful write leaves it; the ranges of the final
\* Ledger do not depend on the outcomes of the writes.
C5_PersistFailureIsolated == [][C5_Step]_vars /\ []C5_Segments

\* C5 witness: both writes of a record failed and the scan went on to write
\* the next record.
C5_Witness ==
    /\ Returned /\ group_multipage
    /\ \E n \in 1..(Len(records) - 1) :
          /\ records[n].status = "ERROR"
          /\ records[n].note[1] = "WriteError"
          /\ records[n].note[3] = OkDir
          /\ records[n].output_file = Dash
          /\ records[n + 1].status = "OK"

(***************************************************************************)
(* C6  The run completes                                                   *)
(***************************************************************************)

\* Only the call of the observer can make split_pdf raise or hang.
C6_OnlyObserverAborts ==
    pc' \in {"raised", "blocked"} => Len(progress') = Len(progress) + 1

\* Every step of split_pdf handles the next page and moves to the one after
\* it, or is the return that follows the last page, unless the observer's call
\* stopped it.
C6_Advances ==
    \/ pc = "scan" /\ i < total_pages /\ pc' = "scan" /\ i' = i + 1
    \/ pc = "scan" /\ i = total_pages /\ pc' = "returned"
    \/ pc' \in {"raised", "blocked"}
    \/ pc # "scan"

\* The enabling condition of Next while split_pdf scans: each action is its
\* guard, a choice among the results of its handler, and assignments.
CanStep ==
    /\ pc = "scan"
    /\ \/ ~group_multipage /\ i < total_pages /\ SinglePageResults # {}
       \/ ~group_multipage /\ i = total_pages
       \/ group_multipage /\ i < total_pages /\ GroupedPageResults # {}
       \/ group_multipage /\ i = total_pages /\ FinalFlushResults # {}

\* While split_pdf has not returned or been stopped it can take a step, and
\* when it has returned every page was handled, no record is left open and the
\* summary is there.
C6_Completes ==
    /\ pc \in {"start", "open_raised", "scan", "returned", "raised", "blocked",
              "exported", "export_raised"}
    /\ i \in 0..total_pages
    /\ pc = "scan" => CanStep
    /\ Returned =>
          /\ i = total_pages
          /\ current_pages = <<>>
          /\ result # <<>>
          /\ result[1].records = records
          /\ result[1].pages = total_pages

\* C6: whatever pages are unreadable and whatever writes raise, each step of
\* split_pdf handles one more page until, after the last page and the terminal
\* flush, it returns its result; before that it can always take its next step,
\* and nothing but the call of an installed observer makes it raise.
C6_CompletedRun ==
    /\ [][C6_OnlyObserverAborts /\ C6_Advances]_vars
    /\ []C6_Completes

\* C6 witness: a returned run in which a page was unreadable and two writes
\* raised.
C6_Witness ==
    /\ Returned /\ observer = "none"
    /\ Unreadable(doc) # {}
    /\ FailedWrites(writes) >= 2
    /\ Len(records) = total_pages

(***************************************************************************)
(* C7  Boundary pages                                                      *)
(***************************************************************************)

\* The entry was appended by flush_current for a record with an identity.
IsRecordEntry(r) ==
    \/ r.status = "OK"
    \/ r.status = "ERROR" /\ r.note[1] = "WriteError" /\ r.note[3] = OkDir

C7_Step ==
    (pc = "scan" /\ group_multipage /\ i < total_pages /\ Boundary(doc, i + 1)) =>
        /\ current_pages' = <<i>>
        /\ current_start_page' = i + 1
        /\ current_filename' = extract_filename_year_month_avs(doc[i + 1].text)
        /\ IF current_pages # <<>>
           THEN LET r == records'[Len(records')]
                IN  /\ Len(records') = Len(records) + 1
                    /\ SubSeq(records', 1, Len(records)) = records
                    /\ IsRecordEntry(r)
                    /\ r.pages[1] = current_start_page
                    /\ r.pages[Len(r.pages)] = current_pages[Len(current_pages)] + 1
                    /\ r.pages[Len(r.pages)] < i + 1
           ELSE records' = records

C7_Order ==
    group_multipage =>
        /\ \A n \in 1..Len(records) :
              IsRecordEntry(records[n]) => Boundary(doc, records[n].pages[1])
        /\ \A m, n \in 1..Len(records) :
              (m < n /\ IsRecordEntry(records[m]) /\ IsRecordEntry(records[n]))
                  => records[m].pages[1] < records[n].pages[1]

\* C7: in grouped mode a boundary page becomes the first page of a new record,
\* after the entry of the record that was open, if any, has been appended; the
\* first page of every record entry is a boundary page, and record entries
\* appear in ascending order of first page.
C7_BoundaryOpens == [][C7_Step]_vars /\ []C7_Order

\* C7 witness: a boundary page closed a record of two pages and opened its own.
C7_Witness ==
    /\ group_multipage /\ pc = "scan" /\ i = 3
    /\ Boundary(doc, 1) /\ doc[2].readable /\ ~Boundary(doc, 2) /\ Boundary(doc, 3)
    /\ Len(records) = 1 /\ records[1].pages = <<1, 2>>
    /\ current_pages = <<2>>

(***************************************************************************)
(* C8  Contiguity                                                          *)
(***************************************************************************)

\* C8: in grouped mode every page list handed to write_pages is a non-empty
\* run of consecutive page indices.
C8_Contiguity ==
    group_multipage =>
        \A n \in 1..Len(writes) :
            LET ps == writes[n].pages
            IN  /\ ps # <<>>
                /\ \A m \in 1..Len(ps) : ps[m] = ps[1] + m - 1

(***************************************************************************)
(* C9  Incomplete identities                                               *)
(***************************************************************************)

\* What a grouped step does with page i + 1; orphanTags are the outcome tags
\* allowed for the entry of a page that no record takes.
C9_StepWith(orphanTags) ==
    (pc = "scan" /\ group_multipage /\ i < total_pages) =>
        /\ (current_start_page' = i + 1) <=> Boundary(doc, i + 1)
        /\ (current_pages' # <<>> /\ current_pages'[1] = i) <=> Boundary(doc, i + 1)
        /\ (doc[i + 1].readable /\ ~Boundary(doc, i + 1)) =>
              IF current_pages # <<>>
              THEN /\ current_pages' = Append(current_pages, i)
                   /\ current_start_page' = current_start_page
                   /\ current_filename' = current_filename
                   /\ records' = records
              ELSE LET r == records'[Len(records')]
                   IN  /\ current_pages' = <<>>
                       /\ Len(records') = Len(records) + 1
                       /\ SubSeq(records', 1, Len(records)) = records
                       /\ r.pages = <<i + 1>>
                       /\ r.status \in orphanTags
                       /\ r.status = "ORPHAN" <=> writes'[Len(writes) + 1].outcome = "ok"

\* C9: a page opens a record iff its identity is complete; a page with an
\* incomplete identity is appended to the open record, or when none is open
\* gets a single-page ORPHAN entry.
C9_OpensIffComplete == [][C9_StepWith({"ORPHAN"})]_vars

\* C9 amended: ... or when none is open gets a single-page entry, ORPHAN when
\* its artifact is written and ERROR when that write raises.
C9_OpensIffCompleteOrError == [][C9_StepWith({"ORPHAN", "ERROR"})]_vars

\* C9 witness: a page with the period token alone got an ORPHAN entry, and a
\* page with the AVS token alone was appended to the record opened after it.
C9_Witness ==
    /\ group_multipage /\ Len(doc) = 3 /\ i = 3
    /\ doc[1].readable /\ doc[1].text.per # NoPeriod /\ doc[1].text.avs = NoAvs
    /\ doc[3].readable /\ doc[3].text.per = NoPeriod /\ doc[3].text.avs # NoAvs
    /\ Len(records) = 1 /\ records[1].status = "ORPHAN"
    /\ current_pages = <<1, 2>>

(***************************************************************************)
(* C10  The progress observer                                              *)
(***************************************************************************)

\* C10: with an observer installed, split_pdf is never stopped by it: it
\* neither raises nor hangs in the observer's call.
C10_ObserverHarmless == observer = "installed" => pc \notin {"raised", "blocked"}

(***************************************************************************)
(* C11  Progress notifications                                             *)
(***************************************************************************)

\* Number of pages whose loop body has run to its progress call.
PagesNotified == IF pc \in {"raised", "blocked"} THEN i + 1 ELSE i

\* C11: with an observer installed, in both modes, the notifications emitted
\* so far are (1, total), (2, total), ..., one for each page handled so far and
\* in that order, emitted after the page's entry (its ERROR entry when the page
\* failed) was appended; when split_pdf returns there is one per page.
C11_ProgressMonotonic ==
    (observer = "installed" /\ pc \in {"scan", "returned", "raised", "blocked"}) =>
        /\ progress = [k \in 1..PagesNotified |-> <<k, total_pages>>]
        /\ Returned => Len(progress) = total_pages
        /\ ~group_multipage =>
              /\ Len(records) = Len(progress)
              /\ \A k \in 1..Len(records) : records[k].pages = <<k>>
        /\ \A p \in Unreadable(doc) :
              p <= Len(progress) =>
                  \E n \in 1..Len(records) :
                      records[n].status = "ERROR" /\ records[n].pages = <<p>>

\* C11 witness: a returned run of three pages with an observer, in which the
\* second page was unreadable.
C11_Witness ==
    /\ Returned /\ observer = "installed" /\ total_pages = 3
    /\ 2 \in Unreadable(doc)
    /\ progress = <<<<1, 3>>, <<2, 3>>, <<3, 3>>>>

(***************************************************************************)
(* C12  The source document cannot be opened                               *)
(***************************************************************************)

\* C12: when opening the source raised, the run has not started and stays
\* there: no page was scanned, the Ledger is empty, write_pages was never
\* called and no artifact exists, no notification was emitted, split_pdf
\* returned nothing and there is no exported file.
C12_OpenFailureClean ==
    pc = "open_raised" =>
        /\ i = 0
        /\ records = <<>>
        /\ writes = <<>>
        /\ files = {}
        /\ progress = <<>>
        /\ result = <<>>
        /\ csv = NoCsv
        /\ ~ENABLED Next

\* C12 witness: opening a document of three pages raised, with an observer
\* installed.
C12_Witness ==
    pc = "open_raised" /\ total_pages = 3 /\ observer = "installed" /\ csv = NoCsv

(***************************************************************************)
(* C13  The identity fields of an OK entry                                 *)
(***************************************************************************)

\* C13: in grouped mode the year, month and avs fields of every OK entry are
\* the year, the month name and the AVS token of the text of the first page
\* of its range.
C13_EntryIdentity ==
    group_multipage =>
        \A n \in 1..Len(records) :
            records[n].status = "OK" =>
                LET text == doc[records[n].pages[1]].text
                IN  /\ records[n].year = text.per[2]
                    /\ records[n].month = MONTHS_FR[text.per[1]]
                    /\ records[n].avs = text.avs

(***************************************************************************)
(* C14  The Ledger is append-only; the export follows its order            *)
(***************************************************************************)

\* seq is ext without some of its last elements.
IsPrefix(seq, ext) == Len(seq) <= Len(ext) /\ SubSeq(ext, 1, Len(seq)) = seq

\* A step keeps every entry of the Ledger where and as it is.
C14_Step == IsPrefix(records, records')

\* The exported file is the header followed by one row per Ledger entry,
\* row k holding the fields of entry k.
C14_Export ==
    pc = "exported" =>
        /\ Len(csv) = Len(records) + 1
        /\ csv[1] = CsvHeader
        /\ \A k \in 1..Len(records) :
              /\ csv[k + 1][1] = records[k].status
              /\ csv[k + 1][2] = records[k].year
              /\ csv[k + 1][3] = records[k].month
              /\ csv[k + 1][4] = records[k].avs
              /\ csv[k + 1][5] = records[k].pages
              /\ csv[k + 1][6] = records[k].output_file
              /\ csv[k + 1][7] = records[k].output_path
              /\ csv[k + 1][8] = records[k].note

\* C14: every step of a run leaves the Ledger an extension of what it was
\* (no entry is removed, moved or changed), and the export holds exactly one
\* row per entry, in Ledger order.
C14_AppendOnly == [][C14_Step]_vars /\ []C14_Export

\* C14 witness: an exported Ledger of three entries with three different
\* outcome tags.
C14_Witness ==
    /\ pc = "exported" /\ Len(records) = 3 /\ Len(csv) = 4
    /\ Cardinality({records[k].status : k \in 1..3}) = 3

(***************************************************************************)
(* C15  The classifier                                                     *)
(***************************************************************************)

\* Both regular expressions find a match in the text.
BothPatternsMatch(text) == text.per # NoPeriod /\ text.avs # NoAvs

\* Both find a match and the month of the first period match is a month.
BothRulesYield(text) == BothPatternsMatch(text) /\ text.per[1] \in DOMAIN MONTHS_FR

\* Page p opened a record: it is the first page of the open record or of the
\* entry of a finalized one.
OpenedRecord(p) ==
    \/ current_pages # <<>> /\ current_start_page = p
    \/ \E n \in 1..Len(records) : IsRecordEntry(records[n]) /\ records[n].pages[1] = p

\* What the classifier answered for the readable pages handled so far, and
\* what the scan did with the answer, when Rule is the condition for an
\* identity.
C15_With(Rule(_)) ==
    \A p \in 1..i :
        doc[p].readable =>
            LET text == doc[p].text
                rule == Rule(text)
            IN  /\ (extract_filename_year_month_avs(text) # None) <=> rule
                /\ is_new_payslip_page(text) <=> rule
                /\ group_multipage => (OpenedRecord(p) <=> rule)
                /\ (~group_multipage /\ records[p].status = "OK") => rule
                /\ (~group_multipage /\ records[p].status = "FALLBACK") => ~rule

C16_Step ==
    (pc = "scan" /\ group_multipage /\ i < total_pages /\ ~doc[i + 1].readable) =>
        /\ current_pages' = current_pages
        /\ current_filename' = current_filename
        /\ current_start_page' = current_start_page
        /\ Len(records') = Len(records) + 1
        /\ IsPrefix(records, records')
        /\ records'[Len(records')].status = "ERROR"
        /\ records'[Len(records')].pages = <<i + 1>>
        /\ records'[Len(records')].note = ErrNote(ExtractError(i))
        /\ errors' = errors + 1
        /\ <<ok_files, fallback_pages, orphan_pages>>' = <<ok_files, fallback_pages, orphan_pages>>
        /\ \/ pc' = "scan" /\ i' = i + 1
           \/ observer = "installed" /\ pc' \in {"raised", "blocked"}

\* C16: the grouped step for a page whose extract_text() raises leaves
\* current_pages, current_filename and current_start_page as they were,
\* appends exactly one entry, an ERROR entry for that page alone, and goes on
\* to the next page (unless the installed observer stops the run).
C16_ErrorLeavesRecord == [][C16_Step]_vars

\* C16 witness: the second page was unreadable while the record opened by the
\* first page was open, and the scan stands before the third page.
C16_Witness ==
    /\ group_multipage /\ pc = "scan" /\ i = 2 /\ total_pages = 3
    /\ Boundary(doc, 1) /\ ~doc[2].readable
    /\ current_pages = <<0>> /\ current_start_page = 1
    /\ Len(records) = 1 /\ records[1].status = "ERROR" /\ records[1].pages = <<2>>

(***************************************************************************)
(* C17  Every opened record is finalized once                              *)
(***************************************************************************)

\* The boundary pages among the pages handled so far: the records opened.
OpenedSoFar == {p \in 1..PagesNotified : Boundary(doc, p)}

\* The entries flush_current appended for the record opened by page p.
EntriesOf(p) == {n \in 1..Len(records) : IsRecordEntry(records[n]) /\ records[n].pages[1] = p}

\* The record opened by page p is the open one.
IsOpen(p) == current_pages # <<>> /\ current_start_page = p

\* C17: in a grouped scan every record opened so far is either the open
\* record, with no entry yet, or has exactly one entry (OK or ERROR); the open
\* record is the one opened by the latest boundary page, so each record was
\* finalized by the boundary page that followed it or by the terminal flush;
\* every record entry belongs to an opened record; and once split_pdf has
\* returned no record is open.
C17_FinalizedOnce ==
    group_multipage =>
        LET opened == OpenedSoFar
        IN  /\ \A p \in opened :
                  LET entries == EntriesOf(p)
                  IN  /\ Cardinality(entries) = IF IsOpen(p) THEN 0 ELSE 1
                      /\ \A n \in entries : records[n].status \in {"OK", "ERROR"}
                      /\ IsOpen(p) => \A q \in opened : q <= p
                      /\ (pc \in {"scan", "raised", "blocked"} /\ \A q \in opened : q <= p)
                            => IsOpen(p)
            /\ \A n \in 1..Len(records) :
                  IsRecordEntry(records[n]) => records[n].pages[1] \in opened
            /\ current_pages # <<>> => current_start_page \in opened
            /\ pc \in {"returned", "exported", "export_raised"} => current_pages = <<>>

\* C17 witness: two records were opened; the second boundary page finalized
\* the first and the terminal flush the second.
C17_Witness ==
    /\ Returned /\ group_multipage /\ total_pages = 3
    /\ OpenedSoFar = {1, 3}
    /\ Cardinality(EntriesOf(1)) = 1 /\ Cardinality(EntriesOf(3)) = 1
    /\ current_pages = <<>>

(***************************************************************************)
(* C18  Orphans come before the first record                               *)
(***************************************************************************)

\* C18: in a grouped scan, once a boundary page has been handled a record is
\* open until the terminal flush; every ORPHAN entry covers one page, a
\* readable page without a complete identity that no boundary page precedes,
\* and every such page handled without a failed write has an ORPHAN entry.
C18_OrphansFirst ==
    group_multipage =>
        /\ (pc \in {"scan", "raised", "blocked"} /\ OpenedSoFar # {}) => current_pages # <<>>
        /\ \A n \in 1..Len(records) :
              records[n].status = "ORPHAN" =>
                  /\ Len(records[n].pages) = 1
                  /\ doc[records[n].pages[1]].readable
                  /\ \A q \in 1..records[n].pages[1] : ~Boundary(doc, q)
        /\ orphan_pages = Tally(records, "ORPHAN")
        /\ FailedWrites(writes) = 0 =>
              \A p \in 1..PagesNotified :
                  (doc[p].readable /\ \A q \in 1..p : ~Boundary(doc, q)) =>
                      \E n \in 1..Len(records) :
                          records[n].status = "ORPHAN" /\ records[n].pages = <<p>>

\* C18 witness: an orphan page, then a record that an unreadable page and a
\* failed write did not close.
C18_Witness ==
    /\ group_multipage /\ pc = "scan" /\ i = 3
    /\ Tally(records, "ORPHAN") = 1 /\ records[1].pages = <<1>>
    /\ Boundary(doc, 2) /\ ~doc[3].readable
    /\ FailedWrites(writes) >= 1
    /\ current_pages = <<1>>

(***************************************************************************)
(* C19  Collision naming                                                   *)
(***************************************************************************)

\* The calls of write_pages for the artifact of a record (in ok_dir).
RecordWrites == {n \in 1..Len(writes) : writes[n].path.dir = OkDir}

\* The base name of the record written by call n: the name derived from the
\* text of its first page.
BaseName(n) == extract_filename_year_month_avs(doc[writes[n].pages[1] + 1].text)

\* A file with that base name was written in ok_dir before call n: by a call
\* that returned, or that raised after creating the file.
BaseTaken(n) ==
    \E k \in 1..(n - 1) :
        /\ writes[k].path = PathOf(OkDir, BaseName(n))
        /\ writes[k].outcome \in {"ok", "raise_after_open"}

\* C19: in grouped mode the artifact of a record is written under its base
\* name, year-monthname-avs.pdf of its first page, when no file of that name
\* was written before in this run, and otherwise under the base name with
\* _pNNN before .pdf, NNN being the record's 1-indexed first page on three
\* digits.
C19_CollisionNaming ==
    group_multipage =>
        \A n \in RecordWrites :
            LET start == writes[n].pages[1] + 1
                text == doc[start].text
                base == <<text.per[2], "-", MONTHS_FR[text.per[1]], "-", text.avs, ".pdf">>
            IN  /\ BaseName(n) = base
                /\ writes[n].path.name =
                      IF BaseTaken(n)
                      THEN <<text.per[2], "-", MONTHS_FR[text.per[1]], "-", text.avs,
                             "_p", Pad3(start), ".pdf">>
                      ELSE base

\* C19 witness: two records with the same identity, opened by pages 1 and 3,
\* were written as the base name and the base name suffixed _p003.
C19_Witness ==
    /\ group_multipage /\ Returned /\ total_pages = 3
    /\ Boundary(doc, 1) /\ doc[2].readable /\ ~Boundary(doc, 2) /\ Boundary(doc, 3)
    /\ doc[3].text = doc[1].text
    /\ Len(records) = 2
    /\ records[1].status = "OK" /\ records[1].pages = <<1, 2>>
    /\ records[1].output_file = extract_filename_year_month_avs(doc[1].text)
    /\ records[2].status = "OK" /\ records[2].pages = <<3>>
    /\ records[2].output_file =
          StripPdf(extract_filename_year_month_avs(doc[1].text)) \o <<"_p", "003", ".pdf">>

(***************************************************************************)
(* C20  One scan at a time in the window                                   *)
(***************************************************************************)

\* The worker threads that are in the try block of _do_work.
ActiveWorkers == {t \in 1..Len(threads) : threads[t].at \in {"working", "raised"}}

\* The _finish or _fail callback of thread t is registered and not yet run.
CallbackPending(t) ==
    \E k \in 1..Len(ui_queue) :
        ui_queue[k].thread = t /\ ui_queue[k].kind \in {"finish", "fail"}

\* C20: from the start of a worker thread by AppUI.run until its _finish or
\* _fail callback has run on the UI thread the run button is disabled, and at
\* most one worker thread is scanning.
C20_OneActiveScan ==
    /\ Cardinality(ActiveWorkers) <= 1
    /\ \A t \in 1..Len(threads) :
          (t \in ActiveWorkers \/ CallbackPending(t)) => run_btn = "disabled"

\* C20 witness: a second run is scanning after the first one was finished.
C20_Witness ==
    /\ Len(threads) = 2
    /\ threads[1].at = "exited"
    /\ threads[2].at = "working" /\ threads[2].done = 1 /\ threads[2].total = 2
    /\ run_btn = "disabled"

(***************************************************************************)
(* C21  A run launched from the window ends                                *)
(***************************************************************************)

\* Nothing of the runs launched is left to happen: every worker thread is
\* over and no callback is registered.
RunsOver ==
    /\ threads # <<>>
    /\ \A t \in 1..Len(threads) : threads[t].at = "exited"
    /\ ui_queue = <<>>

\* C21: when everything a launched run does has happened, whether its worker
\* completed the scan or raised, the run button is enabled again and the
\* status line no longer reads "Traitement en cours".
C21_RunEnds ==
    RunsOver => run_btn = "normal" /\ status_var # "Traitement en cours"

(***************************************************************************)
(* C22  The open record                                                    *)
(***************************************************************************)

\* C22: in every state of a grouped scan current_pages is non-empty iff
\* current_filename holds a name iff current_start_page holds a page, and then
\* the start page is the first accumulated page index plus one; flush_current
\* never wrote an unknown_slip file and the Ledger holds no FALLBACK entry.
C22_OpenRecord ==
    group_multipage =>
        /\ (current_pages # <<>>) <=> (current_filename # None)
        /\ (current_pages # <<>>) <=> (current_start_page # NoStart)
        /\ current_pages # <<>> => current_start_page = current_pages[1] + 1
        /\ \A n \in 1..Len(writes) : writes[n].path.name[1] # "unknown_slip_p"
        /\ Tally(records, "FALLBACK") = 0

\* C22 witness: a record of two pages is open after the record before it was
\* finalized.
C22_Witness ==
    /\ group_multipage /\ pc = "scan" /\ i = 3
    /\ Len(records) = 1 /\ records[1].status = "OK" /\ records[1].pages = <<1>>
    /\ current_pages = <<1, 2>>
    /\ current_filename # None
    /\ current_start_page = 2

(***************************************************************************)
(* C23  Accounting at each progress notification                           *)
(***************************************************************************)

\* Call n of write_pages is the second attempt of a handler: the copy to the
\* error directory that follows its failed write of the same pages.
IsRetry(n) ==
    /\ n > 1
    /\ writes[n - 1].outcome # "ok"
    /\ writes[n - 1].pages = writes[n].pages
    /\ writes[n].path.name[1] \in {"error_slip_p", "error_page_"}

\* The first attempts, in order: one for each Ledger entry, made with the
\* pages the entry stands for.
FirstWrites == SelectSeq([n \in 1..Len(writes) |-> n], LAMBDA n : ~IsRetry(n))

\* The pages (1-indexed) given to call n of write_pages.
PagesOfCall(n) == {writes[n].pages[m] + 1 : m \in 1..Len(writes[n].pages)}

\* The pages (1-indexed) held by Ledger entry k.
HeldBy(k) == PagesOfCall(FirstWrites[k])

\* The pages (1-indexed) of the open record.
OpenPages == {current_pages[m] + 1 : m \in 1..Len(current_pages)}

\* C23: in a grouped scan with an observer, after the notification (k, total)
\* every page 1..k is held by exactly one Ledger entry or is a page of the
\* open record, never both, and neither holds a page greater than k.
C23_Accounting ==
    (group_multipage /\ observer = "installed") =>
        LET k == Len(progress)
            firsts == FirstWrites
            open == OpenPages
        IN  /\ Len(firsts) = Len(records)
            /\ \A p \in 1..k :
                  Cardinality({n \in 1..Len(records) : p \in PagesOfCall(firsts[n])})
                      + (IF p \in open THEN 1 ELSE 0) = 1
            /\ \A n \in 1..Len(records) : PagesOfCall(firsts[n]) \subseteq 1..k
            /\ open \subseteq 1..k
            /\ Len(current_pages) = Cardinality(open)

\* C23 witness: after the notification (3, 3) page 2, unreadable, is held by
\* its ERROR entry and pages 1 and 3 by the open record.
C23_Witness ==
    /\ group_multipage /\ observer = "installed" /\ pc = "scan"
    /\ progress = <<<<1, 3>>, <<2, 3>>, <<3, 3>>>>
    /\ Len(records) = 1 /\ HeldBy(1) = {2}
    /\ OpenPages = {1, 3}

(***************************************************************************)
(* C24  No artifact is overwritten                                         *)
(***************************************************************************)

\* Call n of write_pages created its file: it returned, or raised after open().
Created(n) == writes[n].outcome \in {"ok", "raise_after_open"}

\* C24: in both modes, two calls of write_pages of one run that both created
\* their file were given different paths, over ok_dir and err_dir together;
\* a path is given a second time only in ok_dir, after a call that raised
\* before it created the file; and the files of the run are the paths of the
\* calls that created one.
C24_NoOverwrite ==
    /\ \A n \in 1..Len(writes) :
          \A m \in 1..(n - 1) :
              writes[m].path = writes[n].path =>
                  /\ ~Created(m)
                  /\ writes[m].path.dir = OkDir
    /\ files = {writes[n].path : n \in {k \in 1..Len(writes) : Created(k)}}

\* C24 witness: a returned run wrote into both directories: two artifacts of
\* one identity, the second under a suffixed name, and an error copy after a
\* write that raised.
C24_Witness ==
    /\ Returned
    /\ \E m, n \in 1..Len(writes) :
          /\ m < n /\ Created(m) /\ Created(n)
          /\ writes[m].path.dir = OkDir /\ writes[n].path.dir = OkDir
          /\ Len(writes[n].path.name) = Len(writes[m].path.name) + 2
          /\ SubSeq(writes[n].path.name, 1, 5) = SubSeq(writes[m].path.name, 1, 5)
    /\ \E n \in 1..Len(writes) : writes[n].path.dir = ErrDir /\ Created(n) /\ IsRetry(n)

(***************************************************************************)
(* C25  One page per file                                                  *)
(***************************************************************************)

\* C25: with group_multipage = False the Ledger holds one entry for each page
\* handled so far, entry k for page k alone: ERROR when extract_text() raised
\* or the page's write raised, else OK when the page has a complete identity
\* and FALLBACK when it has not; there is no ORPHAN entry, the orphans counter
\* is 0, and no record is ever open.
C25_OnePagePerFile ==
    ~group_multipage =>
        /\ Len(records) = PagesNotified
        /\ LET firsts == FirstWrites
           IN  /\ Len(firsts) = Len(records)
               /\ \A k \in 1..Len(records) :
                     LET first == writes[firsts[k]]
                     IN  /\ records[k].pages = <<k>>
                         /\ first.pages = <<k - 1>>
                         /\ records[k].status =
                               IF ~doc[k].readable \/ first.outcome # "ok" THEN "ERROR"
                               ELSE IF Boundary(doc, k) THEN "OK"
                               ELSE "FALLBACK"
                         /\ records[k].status = "OK" => first.path.dir = OkDir
                         /\ records[k].status = "FALLBACK" => first.path.dir = ErrDir
        /\ orphan_pages = 0
        /\ current_pages = <<>>
        /\ Returned =>
              /\ Len(records) = total_pages
              /\ result[1].orphans = 0

\* C25 witness: a returned run of three pages in this mode whose Ledger is an
\* OK, a FALLBACK and an ERROR entry.
C25_Witness ==
    /\ ~group_multipage /\ Returned /\ total_pages = 3
    /\ {records[k].status : k \in 1..3} = {"OK", "FALLBACK", "ERROR"}
    /\ \A k \in 1..3 : records[k].pages = <<k>>

====
